---- MODULE Spec2Model ----
(***************************************************************************)
(* Model of influence_maximization.cpp: the edge-list loader               *)
(* (create_cascade / get_cascade_vector), the breadth-first reachability   *)
(* count (reachable_from), the influence estimator (calculate_influence)   *)
(* and the greedy selection loop of main.                                  *)
(*                                                                         *)
(* Four specifications share the variables:                                *)
(*   SpecLoad       get_cascade_vector: the files of the directory are     *)
(*                  read line by line;                                     *)
(*   Spec           main() from the return of get_cascade_vector on: the   *)
(*                  greedy loop for K rounds, started on what the loader   *)
(*                  builds from a directory of edge lists;                 *)
(*   SpecBFS        one call reachable_from(A, S), one loop iteration per  *)
(*                  step, on inputs drawn from bounded sets;               *)
(*   SpecInfluence  one call calculate_influence(cascades, S), one loop    *)
(*                  iteration per step, on inputs drawn from bounded sets. *)
(*                                                                         *)
(* A double is modelled as an exact fraction [num, den]; den = 0 with      *)
(* num = 0 is the IEEE not-a-number that 0.0 / 0 produces.  Rounding is    *)
(* not modelled: every value the program computes is a small integer sum   *)
(* divided by the cascade count.                                           *)
(***************************************************************************)
EXTENDS Integers, Sequences, FiniteSets, TLC

VARIABLES
    pc,                 \* position of the control flow
    K,                  \* PARAM_K, the number of rounds requested
    V,                  \* main: set<int> V
    cascades,           \* main: vector<map<int, vector<int>>> cascades
    A,                  \* create_cascade / reachable_from: the map A
    line,               \* create_cascade: the line getline just read
    S,                  \* main / reachable_from / calculate_influence: set S
    previous_influence, \* main
    iter,               \* main: the round counter of the for loop
    max_delta,          \* main: round-local
    max_influence,      \* main: round-local
    max_delta_node,     \* main: round-local
    T,                  \* main: the candidate sets T of the last round
    Q,                  \* reachable_from: the BFS queue
    explored,           \* reachable_from: map<int, bool> explored
    r,                  \* reachable_from: the count
    influence,          \* calculate_influence: the accumulator
    pos                 \* calculate_influence: cascades already summed

vars == <<pc, K, V, cascades, A, line, S, previous_influence, iter, max_delta,
          max_influence, max_delta_node, T, Q, explored, r, influence, pos>>

loaderVars == <<V, cascades, A, line>>
greedyVars == <<S, previous_influence, iter, max_delta, max_influence,
                max_delta_node, T>>
bfsVars == <<Q, explored, r>>
infVars == <<influence, pos>>

----------------------------------------------------------------------------
(* Bounds of the model *)

\* node identifiers in the edge lists are 1..MaxNode
MaxNode == 3
\* edge lines in the whole directory
MaxEdges == 2
\* cascade files in the directory
MaxFiles == 2
\* largest value of PARAM_K tried
MaxK == 2
\* node identifiers of a reachable_from input are 1..MaxVertex
MaxVertex == 3
\* edges of a reachable_from input
MaxAdjEdges == 3

----------------------------------------------------------------------------
(* std::map and std::set helpers *)

EmptyMap == <<>>

Min(X) == CHOOSE x \in X : \A y \in X : x <= y

\* m[k] of a non-const std::map: a missing key is inserted with the default value
MapIndex(m, k, default) == IF k \in DOMAIN m THEN m ELSE m @@ (k :> default)

\* m[k] = v
MapAssign(m, k, v) == [x \in DOMAIN m \cup {k} |-> IF x = k THEN v ELSE m[x]]

----------------------------------------------------------------------------
(* doubles *)

DZero == [num |-> 0, den |-> 1]
DMinusOne == [num |-> -1, den |-> 1]
DOfInt(n) == [num |-> n, den |-> 1]

IsNaN(x) == x.den = 0 /\ x.num = 0

DAdd(x, y) == [num |-> x.num * y.den + y.num * x.den, den |-> x.den * y.den]
DSub(x, y) == [num |-> x.num * y.den - y.num * x.den, den |-> x.den * y.den]

\* x / n for a size_t n converted to double; 0.0 / 0 is not-a-number
DDivSize(x, n) ==
    IF n = 0
    THEN [num |-> IF x.num > 0 THEN 1 ELSE IF x.num < 0 THEN -1 ELSE 0, den |-> 0]
    ELSE [num |-> x.num, den |-> x.den * n]

\* x > y; false when either side is not-a-number
DGt(x, y) == ~IsNaN(x) /\ ~IsNaN(y) /\ x.num * y.den > y.num * x.den
\* x == y; false when either side is not-a-number
DEq(x, y) == ~IsNaN(x) /\ ~IsNaN(y) /\ x.num * y.den = y.num * x.den

----------------------------------------------------------------------------
(* reachable_from: the state of one call is [A, Q, explored, r] *)

\* a plausible slip: the seed is pushed and marked but not counted
SeedInsertNoCount(st, s) ==
    [st EXCEPT !.Q = Append(st.Q, s),
               !.explored = MapAssign(st.explored, s, TRUE)]

\* the body of the seed loop for one seed s
SeedInsert(st, s) ==
    [st EXCEPT !.r = st.r + 1,
               !.Q = Append(st.Q, s),
               !.explored = MapAssign(st.explored, s, TRUE)]

\* the seed loop: for (int s : S), in ascending order
RECURSIVE SeedLoop(_, _)
SeedLoop(st, seeds) ==
    IF seeds = {} THEN st
    ELSE SeedLoop(SeedInsert(st, Min(seeds)), seeds \ {Min(seeds)})

\* a plausible slip: the count is incremented for every edge followed
ExploreEdgeCountAll(st, v) ==
    LET read == MapIndex(st.explored, v, FALSE)
    IN  IF ~read[v]
        THEN [st EXCEPT !.Q = Append(st.Q, v),
                        !.explored = MapAssign(read, v, TRUE),
                        !.r = st.r + 1]
        ELSE [st EXCEPT !.explored = read, !.r = st.r + 1]

\* the body of the inner loop for one target v; reading explored[v] inserts
\* a false entry for a node never seen
ExploreEdge(st, v) ==
    LET read == MapIndex(st.explored, v, FALSE)
    IN  IF ~read[v]
        THEN [st EXCEPT !.Q = Append(st.Q, v),
                        !.explored = MapAssign(read, v, TRUE),
                        !.r = st.r + 1]
        ELSE [st EXCEPT !.explored = read]

\* for (int v : A[u]), from the i-th target on
RECURSIVE EdgeLoop(_, _, _)
EdgeLoop(st, targets, i) ==
    IF i > Len(targets) THEN st
    ELSE EdgeLoop(ExploreEdge(st, targets[i]), targets, i + 1)

\* a plausible slip: the front of the queue is read but never popped
VisitFrontNoPop(st) ==
    LET u == Head(st.Q)
        indexed == [st EXCEPT !.A = MapIndex(st.A, u, <<>>)]
    IN  EdgeLoop(indexed, indexed.A[u], 1)

\* one iteration of the while loop: pop u, then follow A[u]; A[u] on the
\* non-const map inserts u with an empty vector when u is not a key
VisitFront(st) ==
    LET u == Head(st.Q)
        indexed == [st EXCEPT !.Q = Tail(st.Q), !.A = MapIndex(st.A, u, <<>>)]
    IN  EdgeLoop(indexed, indexed.A[u], 1)

RECURSIVE WhileLoop(_)
WhileLoop(st) == IF st.Q = <<>> THEN st ELSE WhileLoop(VisitFront(st))

BfsStart(adj) == [A |-> adj, Q |-> <<>>, explored |-> EmptyMap, r |-> 0]

\* int reachable_from(map<int, vector<int>>& A, set<int>& S)
ReachableFrom(adj, seeds) == WhileLoop(SeedLoop(BfsStart(adj), seeds)).r

----------------------------------------------------------------------------
(* calculate_influence *)

\* the loop body for the k-th cascade: the range-for copies the cascade, so
\* reachable_from works on the copy
AddCascade(acc, cs, k, seeds) == DAdd(acc, DOfInt(ReachableFrom(cs[k], seeds)))

RECURSIVE CascadeLoop(_, _, _, _)
CascadeLoop(acc, cs, k, seeds) ==
    IF k > Len(cs) THEN acc
    ELSE CascadeLoop(AddCascade(acc, cs, k, seeds), cs, k + 1, seeds)

\* influence = influence / cascades.size()
Average(sum, n) == DDivSize(sum, n)

\* double calculate_influence(vector<map<...>>& cascades, set<int>& S)
CalculateInfluence(cs, seeds) == Average(CascadeLoop(DZero, cs, 1, seeds), Len(cs))

----------------------------------------------------------------------------
(* create_cascade: lines are sequences of characters *)

POUND == "#"
PERCENT == "%"
Space == " "
Digits == <<"0", "1", "2", "3", "4", "5", "6", "7", "8", "9">>

IsDigit(c) == c \in {"0", "1", "2", "3", "4", "5", "6", "7", "8", "9"}
DigitValue(c) ==
    CASE c = "0" -> 0 [] c = "1" -> 1 [] c = "2" -> 2 [] c = "3" -> 3 [] c = "4" -> 4
      [] c = "5" -> 5 [] c = "6" -> 6 [] c = "7" -> 7 [] c = "8" -> 8 [] c = "9" -> 9

\* operator>> on an int: skip white space, then read the digits
RECURSIVE SkipSpace(_, _)
SkipSpace(l, i) == IF i <= Len(l) /\ l[i] = Space THEN SkipSpace(l, i + 1) ELSE i

RECURSIVE ReadDigits(_, _, _)
ReadDigits(l, i, acc) ==
    IF i <= Len(l) /\ IsDigit(l[i])
    THEN ReadDigits(l, i + 1, acc * 10 + DigitValue(l[i]))
    ELSE [value |-> acc, next |-> i]

ExtractInt(l, i) == ReadDigits(l, SkipSpace(l, i), 0)

\* iss >> from >> to
ParseEdge(l) ==
    LET first == ExtractInt(l, 1)
        second == ExtractInt(l, first.next)
    IN  [from |-> first.value, to |-> second.value]

\* the text of an edge line "from to" (identifiers of one digit)
EdgeLine(from, to) == <<Digits[from + 1], Space, Digits[to + 1]>>

\* A[from].push_back(to)
PushEdge(adj, from, to) ==
    LET indexed == MapIndex(adj, from, <<>>)
    IN  MapAssign(indexed, from, Append(indexed[from], to))

\* the lines a file may hold: blank, comment lines (bare, or commenting out an
\* edge) and well-formed edge lines
EdgeLines == {EdgeLine(f, t) : f, t \in 1..MaxNode}
CommentLines == {<<POUND>>, <<PERCENT>>}
                  \cup {<<POUND>> \o EdgeLine(1, 2), <<PERCENT>> \o EdgeLine(2, 1)}
BlankLine == <<>>
Lines == EdgeLines \cup CommentLines \cup {BlankLine}

\* number of edges stored in a map
RECURSIVE EdgeCountOver(_, _)
EdgeCountOver(adj, keys) ==
    IF keys = {} THEN 0
    ELSE LET k == Min(keys) IN Len(adj[k]) + EdgeCountOver(adj, keys \ {k})
EdgeCount(adj) == EdgeCountOver(adj, DOMAIN adj)

RECURSIVE TotalEdges(_, _)
TotalEdges(cs, k) == IF k > Len(cs) THEN 0 ELSE EdgeCount(cs[k]) + TotalEdges(cs, k + 1)

\* the nodes that appear in a cascade as source or target of an edge
CascadeNodes(adj) ==
    {k \in DOMAIN adj : adj[k] # <<>>}
        \cup UNION {{adj[k][i] : i \in 1..Len(adj[k])} : k \in DOMAIN adj}

----------------------------------------------------------------------------
(* create_cascade and get_cascade_vector as operators *)

\* the body of while (getline(infile, line)) for one line.  line.at(0) is
\* evaluated first and throws std::out_of_range on an empty line; nothing
\* catches it, and the program is terminated.
LoopBody(st, l) ==
    IF Len(l) = 0 THEN [st EXCEPT !.thrown = TRUE]
    ELSE IF l[1] = POUND \/ l[1] = PERCENT THEN st
    ELSE LET e == ParseEdge(l)
         IN  [st EXCEPT !.A = PushEdge(st.A, e.from, e.to),
                        !.V = st.V \cup {e.to, e.from}]

\* void create_cascade(set<int>& V, map<...>& A, string graph_file_name)
RECURSIVE CreateCascade(_, _, _)
CreateCascade(st, lines, i) ==
    IF i > Len(lines) \/ st.thrown THEN st
    ELSE CreateCascade(LoopBody(st, lines[i]), lines, i + 1)

\* void get_cascade_vector(set<int>& V, vector<map<...>>& cascades), on the
\* files of the directory from the i-th on
RECURSIVE GetCascadeVector(_, _, _)
GetCascadeVector(st, files, i) ==
    IF i > Len(files) \/ st.thrown THEN st
    ELSE LET read == CreateCascade([st EXCEPT !.A = EmptyMap], files[i], 1)
         IN  GetCascadeVector(
                 IF read.thrown THEN read
                 ELSE [read EXCEPT !.cascades = Append(read.cascades, read.A)],
                 files, i + 1)

\* main before get_cascade_vector: V and cascades are empty
MainStart == [V |-> {}, cascades |-> <<>>, A |-> EmptyMap, thrown |-> FALSE]

----------------------------------------------------------------------------
(* SpecLoad: get_cascade_vector, one line per step *)

\* the variables of the greedy loop before the loop is reached
IdleGreedy ==
    /\ S = {}
    /\ previous_influence = DZero
    /\ iter = 0
    /\ max_delta = DMinusOne
    /\ max_influence = DMinusOne
    /\ max_delta_node = -1
    /\ T = {}

\* the variables of a call of reachable_from or calculate_influence outside
\* such a call
IdleCalls ==
    /\ Q = <<>>
    /\ explored = EmptyMap
    /\ r = 0
    /\ influence = DZero
    /\ pos = 0

InitLoad ==
    /\ pc = "files"
    /\ K = 1
    /\ V = MainStart.V
    /\ cascades = MainStart.cascades
    /\ A = MainStart.A
    /\ line = <<>>
    /\ IdleGreedy
    /\ IdleCalls

\* get_cascade_vector: the next file of the directory; a fresh map A
OpenFile ==
    /\ pc = "files"
    /\ Len(cascades) < MaxFiles
    /\ A' = EmptyMap
    /\ pc' = "getline"
    /\ UNCHANGED <<K, V, cascades, line, greedyVars, bfsVars, infVars>>

\* create_cascade: one iteration of while (getline(infile, line))
ReadLine ==
    /\ pc = "getline"
    /\ \E l \in Lines :
          /\ l \in EdgeLines => TotalEdges(cascades, 1) + EdgeCount(A) < MaxEdges
          /\ line' = l
          /\ LET st == LoopBody([MainStart EXCEPT !.V = V, !.A = A], l)
             IN  /\ A' = st.A
                 /\ V' = st.V
                 /\ pc' = IF st.thrown THEN "terminated" ELSE "getline"
    /\ UNCHANGED <<K, cascades, greedyVars, bfsVars, infVars>>

\* create_cascade returns at the end of the file; cascades.push_back(A); the
\* locals line and A go out of scope
EndOfFile ==
    /\ pc = "getline"
    /\ cascades' = Append(cascades, A)
    /\ A' = EmptyMap
    /\ line' = <<>>
    /\ pc' = "files"
    /\ UNCHANGED <<K, V, greedyVars, bfsVars, infVars>>

\* the directory is exhausted: get_cascade_vector returns
EndOfDirectory ==
    /\ pc = "files"
    /\ pc' = "loaded"
    /\ UNCHANGED <<K, loaderVars, greedyVars, bfsVars, infVars>>

NextLoad ==
    \/ OpenFile
    \/ ReadLine
    \/ EndOfFile
    \/ EndOfDirectory

SpecLoad == InitLoad /\ [][NextLoad]_vars

----------------------------------------------------------------------------
(* Spec: main() after get_cascade_vector has returned *)

EdgeSeqs(nodes, maxLen) == UNION {[1..n -> nodes \X nodes] : n \in 0..maxLen}

\* the ways to spread e lines over f files, in order
Owners(e, f) == {o \in [1..e -> 1..f] : \A k \in 1..(e - 1) : o[k] <= o[k + 1]}

\* the lines of file i: the edges it owns among the first k, in order
RECURSIVE FileLines(_, _, _, _)
FileLines(es, o, i, k) ==
    IF k = 0 THEN <<>>
    ELSE IF o[k] = i
    THEN Append(FileLines(es, o, i, k - 1), EdgeLine(es[k][1], es[k][2]))
    ELSE FileLines(es, o, i, k - 1)

\* a directory of f files that hold the edge lines es between them, spread
\* as o says
Directory(es, o, f) == [i \in 1..f |-> FileLines(es, o, i, Len(es))]

\* what get_cascade_vector builds from a directory
Loaded(d) == GetCascadeVector(MainStart, d, 1)

\* V and cascades are loaded from a directory of at most MaxFiles files that
\* hold at most MaxEdges edge lines between them (comment lines change nothing
\* of what is loaded, and a blank line ends the program before the greedy loop)
LoadedFromSomeDirectory ==
    \E f \in 0..MaxFiles : \E es \in EdgeSeqs(1..MaxNode, MaxEdges) :
        \E o \in Owners(Len(es), f) :
            LET loaded == Loaded(Directory(es, o, f))
            IN  /\ V = loaded.V
                /\ cascades = loaded.cascades

Init ==
    /\ pc = "for"
    /\ LoadedFromSomeDirectory
    /\ K \in 1..MaxK
    /\ A = EmptyMap
    /\ line = <<>>
    /\ IdleGreedy
    /\ IdleCalls

\* a plausible slip: a tie replaces the best candidate
BetterGeq(delta, best) == DGt(delta, best) \/ DEq(delta, best)

\* if (delta > max_delta)
Better(delta, best) == DGt(delta, best)

\* the round-local variables at the start of a round; T collects the candidate
\* sets the round evaluates
RoundStart ==
    [max_delta |-> DMinusOne, max_influence |-> DMinusOne, max_delta_node |-> -1,
     T |-> {}]

\* the comparison of one candidate with the best of the round so far
Compare(best, u, candidate, influence_T, delta) ==
    IF Better(delta, best.max_delta)
    THEN [max_delta |-> delta, max_influence |-> influence_T,
          max_delta_node |-> u, T |-> best.T \cup {candidate}]
    ELSE [best EXCEPT !.T = best.T \cup {candidate}]

\* delta = influence_T - previous_influence, then the comparison
Evaluate(best, u, candidate, influence_T, previous) ==
    Compare(best, u, candidate, influence_T, DSub(influence_T, previous))

\* the body of for (int u : V) for one node u
ScanNode(best, u, seeds, previous) ==
    IF u \notin seeds
    THEN Evaluate(best, u, seeds \cup {u},
                  CalculateInfluence(cascades, seeds \cup {u}), previous)
    ELSE best

\* for (int u : V), in ascending order
RECURSIVE ScanLoop(_, _, _, _)
ScanLoop(best, nodes, seeds, previous) ==
    IF nodes = {} THEN best
    ELSE ScanLoop(ScanNode(best, Min(nodes), seeds, previous),
                  nodes \ {Min(nodes)}, seeds, previous)

\* one iteration of for (iter < PARAM_K): the scan of V, then
\* S.insert(max_delta_node) and previous_influence = max_influence
Round ==
    /\ pc = "for"
    /\ iter < K
    /\ \E best \in {ScanLoop(RoundStart, V, S, previous_influence)} :
           /\ max_delta' = best.max_delta
           /\ max_influence' = best.max_influence
           /\ max_delta_node' = best.max_delta_node
           /\ T' = best.T
           /\ S' = S \cup {best.max_delta_node}
           /\ previous_influence' = best.max_influence
    /\ iter' = iter + 1
    /\ UNCHANGED <<pc, K, loaderVars, bfsVars, infVars>>

\* the for loop ends after PARAM_K rounds; the result is printed
Finish ==
    /\ pc = "for"
    /\ iter >= K
    /\ pc' = "done"
    /\ UNCHANGED <<K, loaderVars, greedyVars, bfsVars, infVars>>

Next ==
    \/ Round
    \/ Finish

Spec == Init /\ [][Next]_vars

----------------------------------------------------------------------------
(* SpecBFS: one call reachable_from(A, S) *)

\* the map create_cascade builds from a sequence of edges
RECURSIVE AdjOf(_, _)
AdjOf(edges, n) ==
    IF n = 0 THEN EmptyMap
    ELSE PushEdge(AdjOf(edges, n - 1), edges[n][1], edges[n][2])

AdjInputs == {AdjOf(es, Len(es)) : es \in EdgeSeqs(1..MaxVertex, MaxAdjEdges)}

InitBFS ==
    /\ pc = "seeds"
    /\ A \in AdjInputs
    /\ S \in SUBSET (1..MaxVertex)
    /\ Q = <<>>
    /\ explored = EmptyMap
    /\ r = 0
    /\ cascades = <<>>
    /\ influence = DZero
    /\ pos = 0
    /\ K = 1
    /\ V = {}
    /\ line = <<>>
    /\ previous_influence = DZero
    /\ iter = 0
    /\ max_delta = DMinusOne
    /\ max_influence = DMinusOne
    /\ max_delta_node = -1
    /\ T = {}

Call == [A |-> A, Q |-> Q, explored |-> explored, r |-> r]

\* the seed loop, one seed per step; the seeds already pushed are the keys of
\* explored
PushSeed ==
    /\ pc = "seeds"
    /\ S \ DOMAIN explored # {}
    /\ LET st == SeedInsert(Call, Min(S \ DOMAIN explored))
       IN  /\ Q' = st.Q
           /\ explored' = st.explored
           /\ r' = st.r
           /\ A' = st.A
    /\ UNCHANGED <<pc, K, V, cascades, line, S, greedyVars, infVars>>

SeedsDone ==
    /\ pc = "seeds"
    /\ S \ DOMAIN explored = {}
    /\ pc' = "while"
    /\ UNCHANGED <<K, loaderVars, greedyVars, bfsVars, infVars>>

\* one iteration of while (!Q.empty())
Visit ==
    /\ pc = "while"
    /\ Q # <<>>
    /\ LET st == VisitFront(Call)
       IN  /\ Q' = st.Q
           /\ explored' = st.explored
           /\ r' = st.r
           /\ A' = st.A
    /\ UNCHANGED <<pc, K, V, cascades, line, greedyVars, infVars>>

\* return r
Return ==
    /\ pc = "while"
    /\ Q = <<>>
    /\ pc' = "returned"
    /\ UNCHANGED <<K, loaderVars, greedyVars, bfsVars, infVars>>

NextBFS ==
    \/ PushSeed
    \/ SeedsDone
    \/ Visit
    \/ Return

SpecBFS == InitBFS /\ [][NextBFS]_vars

\* the call runs to its end: no step of it waits on anything
FairSpecBFS == SpecBFS /\ WF_vars(NextBFS)

----------------------------------------------------------------------------
(* SpecInfluence: one call calculate_influence(cascades, S) *)

InitInfluence ==
    /\ pc = "each"
    /\ \E f \in 0..MaxFiles : \E es \in EdgeSeqs(1..MaxNode, MaxEdges) :
          \E o \in Owners(Len(es), f) :
              cascades = Loaded(Directory(es, o, f)).cascades
    /\ S \in SUBSET (1..MaxNode)
    /\ influence = DZero
    /\ pos = 0
    /\ A = EmptyMap
    /\ Q = <<>>
    /\ explored = EmptyMap
    /\ r = 0
    /\ K = 1
    /\ V = {}
    /\ line = <<>>
    /\ previous_influence = DZero
    /\ iter = 0
    /\ max_delta = DMinusOne
    /\ max_influence = DMinusOne
    /\ max_delta_node = -1
    /\ T = {}

\* the loop body for the next cascade: A is a copy of it, and the map the
\* call leaves behind is kept in A until the copy is destroyed
SumCascade ==
    /\ pc = "each"
    /\ pos < Len(cascades)
    /\ influence' = AddCascade(influence, cascades, pos + 1, S)
    /\ A' = WhileLoop(SeedLoop(BfsStart(cascades[pos + 1]), S)).A
    /\ pos' = pos + 1
    /\ UNCHANGED <<pc, K, V, cascades, line, greedyVars, bfsVars>>

\* influence = influence / cascades.size(); return influence
Divide ==
    /\ pc = "each"
    /\ pos = Len(cascades)
    /\ influence' = Average(influence, Len(cascades))
    /\ A' = EmptyMap
    /\ pc' = "returned"
    /\ UNCHANGED <<K, V, cascades, line, greedyVars, bfsVars, pos>>

NextInfluence ==
    \/ SumCascade
    \/ Divide

SpecInfluence == InitInfluence /\ [][NextInfluence]_vars

----------------------------------------------------------------------------
(* Properties *)

\* the closure of a set of nodes under the outgoing edges of adj, as a least
\* fixed point
Successors(adj, X) ==
    UNION {{adj[k][i] : i \in 1..Len(adj[k])} : k \in X \cap DOMAIN adj}

RECURSIVE Closure(_, _)
Closure(adj, X) ==
    LET next == X \cup Successors(adj, X)
    IN  IF next = X THEN X ELSE Closure(adj, next)

\* C1: when K exceeds |V| (an empty V included) the selector ends with S = V,
\* and no value that is not a node of V is ever inserted into S.
C1_ExhaustedUniverse ==
    K > Cardinality(V) => (S \subseteq V /\ (pc = "done" => S = V))

\* C2: reachable_from(A, S) returns the number of distinct nodes in the closure
\* of S under A's outgoing edges; the empty seed set gives 0.
C2_CountIsClosureSize ==
    pc = "returned" => r = Cardinality(Closure(A, S))

\* a call that returned on a cascade with a duplicate edge, a seed that is no
\* node of the cascade and a node reached from a seed
C2_Witness ==
    /\ pc = "returned"
    /\ \E s \in S : s \notin CascadeNodes(A)
    /\ \E k \in DOMAIN A : Len(A[k]) >= 2 /\ A[k][1] = A[k][2] /\ k \in S
    /\ r > Cardinality(S)

\* the influence of S with u added, for every node u of V not in S
InfluenceWith == [u \in V \ S |-> CalculateInfluence(cascades, S \cup {u})]

\* u maximizes the influence over V \ S and is the smallest such node
IsFirstMaximizer(inf, u) ==
    /\ \A w \in DOMAIN inf : ~DGt(inf[w], inf[u])
    /\ \A w \in DOMAIN inf : DEq(inf[w], inf[u]) => u <= w

\* C3: in every round with a node of V not yet in S, the node inserted into S
\* maximizes calculate_influence(cascades, S + u) over V \ S and is the
\* smallest identifier among the maximizers.
C3_InsertsFirstMaximizer ==
    [][(pc = "for" /\ iter' = iter + 1 /\ V \ S # {})
          => \E inf \in {InfluenceWith} :
                \E u \in V \ S : IsFirstMaximizer(inf, u) /\ S' = S \cup {u}]_vars

\* a second round has ended in which two nodes tied for the best influence,
\* and the smaller one was inserted
C3_Witness ==
    /\ iter = 2
    /\ max_delta_node \in V
    /\ \E w \in V \ S :
          /\ max_delta_node < w
          /\ DEq(CalculateInfluence(cascades, (S \ {max_delta_node}) \cup {w}),
                 max_influence)

\* C4: with at least one cascade, previous_influence never decreases from one
\* round to the next.
C4_NonDecreasing ==
    [][Len(cascades) >= 1
          => ~DGt(previous_influence, previous_influence')]_vars

\* C5: calculate_influence on an empty cascade collection returns 0.0 or
\* signals an empty-input error; it never yields not-a-number.
C5_EmptyInputGuarded ==
    (pc \in {"returned", "EmptyInputError"} /\ Len(cascades) = 0 /\ pos = 0)
        => (pc = "EmptyInputError" \/ DEq(influence, DZero))

\* the nodes marked explored
Marked(e) == {v \in DOMAIN e : e[v]}

\* the nodes a step appends to the queue
Pushed(before, after) ==
    LET kept == IF pc = "while" /\ before # <<>> THEN Tail(before) ELSE before
    IN  [i \in 1..(Len(after) - Len(kept)) |-> after[Len(kept) + i]]

\* every node a step pushes was not marked before the step, is marked after
\* it, and is pushed once; a mark is never taken back
PushesOnlyFresh ==
    LET new == Pushed(Q, Q')
    IN  /\ Marked(explored) \subseteq Marked(explored')
        /\ {new[i] : i \in 1..Len(new)} = Marked(explored') \ Marked(explored)
        /\ Len(new) = Cardinality(Marked(explored') \ Marked(explored))

\* the position of the call: the seed loop, the while loop, the return
Phase == CASE pc = "seeds" -> 2 [] pc = "while" -> 1 [] OTHER -> 0

\* what is left to do in the current loop: the seeds not yet pushed; twice the
\* nodes not yet marked plus the length of the queue
Measure ==
    CASE pc = "seeds" -> Cardinality(S \ DOMAIN explored)
      [] pc = "while" ->
            2 * Cardinality((CascadeNodes(A) \cup S) \ Marked(explored)) + Len(Q)
      [] OTHER -> 0

\* a step moves to a later phase or leaves strictly less to do
Decreases == Phase' < Phase \/ (Phase' = Phase /\ Measure' < Measure)

\* C6: reachable_from terminates on every finite cascade and seed set, cycles
\* and self-loops included: each node enters the queue at most once and every
\* step of the call leaves strictly less to do, so the queue empties and the
\* call returns after finitely many steps.
C6_Terminates == [][Decreases /\ PushesOnlyFresh]_vars

\* under fair scheduling of its steps the call returns
ReachableFromReturns == <>(pc = "returned")

\* the call on the cycle 1 -> 2 -> 3 -> 1 from seed 1 has returned 3
C6_Witness ==
    /\ pc = "returned"
    /\ A = (1 :> <<2>>) @@ (2 :> <<3>>) @@ (3 :> <<1>>)
    /\ S = {1}
    /\ r = 3

\* C7 as stated: for every cascade and every candidate set T the selector
\* evaluates, |T| <= reachable_from(A, T) <= number of nodes of the cascade.
C7_CountWithinCascade ==
    \A candidate \in T : \A k \in 1..Len(cascades) :
        \E count \in {ReachableFrom(cascades[k], candidate)} :
            /\ count >= Cardinality(candidate)
            /\ count <= Cardinality(CascadeNodes(cascades[k]))

\* C7 amended: for every cascade and every candidate set T the selector
\* evaluates, |T| <= reachable_from(A, T) <= number of distinct nodes among T
\* and the nodes of the cascade.
C7_CountWithinCascadeAndSeeds ==
    \A candidate \in T : \A k \in 1..Len(cascades) :
        \E count \in {ReachableFrom(cascades[k], candidate)} :
            /\ count >= Cardinality(candidate)
            /\ count <= Cardinality(candidate \cup CascadeNodes(cascades[k]))

\* a candidate set of two nodes was evaluated on a cascade that holds only one
\* of them, and the count exceeds both |T| and the cascade's node count
C7_Witness ==
    \E candidate \in T : \E k \in 1..Len(cascades) :
        \E count \in {ReachableFrom(cascades[k], candidate)} :
            /\ Cardinality(candidate) = 2
            /\ candidate \cap CascadeNodes(cascades[k]) # {}
            /\ candidate \ CascadeNodes(cascades[k]) # {}
            /\ count > Cardinality(candidate)
            /\ count > Cardinality(CascadeNodes(cascades[k]))

\* C8: a call reachable_from(A, S) leaves A (keys and edge sequences) and S
\* unchanged.
C8_ArgumentsUnchanged ==
    [][(pc \in {"seeds", "while"}) => (A' = A /\ S' = S)]_vars

\* C9: after every completed round, previous_influence equals
\* calculate_influence(cascades, S).
C9_PreviousIsInfluenceOfS ==
    (pc \in {"for", "done"} /\ iter >= 1)
        => DEq(previous_influence, CalculateInfluence(cascades, S))

IsBlankOrComment(l) == Len(l) = 0 \/ l[1] = POUND \/ l[1] = PERCENT

\* C10: a blank line or a line that begins with '#' or '%' adds no edge and no
\* node, does not make the loader fail, and the loader goes on to the next
\* line.
C10_BlankAndCommentSkipped ==
    [][(pc = "getline" /\ cascades' = cascades /\ IsBlankOrComment(line'))
          => (A' = A /\ V' = V /\ pc' = "getline")]_vars

====
